---- MODULE Spec2Model ----
(***************************************************************************)
(* TechDocGen: the Flask handler upload_video of main.py.  One request is  *)
(* saved to a temporary file, sent to the vendor's resumable upload        *)
(* protocol (initiate, upload, poll), then one generation call is made and *)
(* its response parsed.  Every remote call is one action; the except and   *)
(* finally clauses run inside the action in which the handler leaves the   *)
(* try block.                                                              *)
(***************************************************************************)
EXTENDS Integers, Sequences, FiniteSets, TLC

\* ---------------------------------------------------------------- bounds
\* longest list of parts of the first candidate of a generation response
MaxParts == 2
\* longest list of candidates of a generation response
MaxCandidates == 2

\* ------------------------------------------------------ program constants
\* main.py:91  max_attempts = 60
max_attempts == 60
\* main.py:100  time.sleep(5)
PollInterval == 5

\* ------------------------------------------------------------ value sets
\* request handling threads (Flask serves each request in its own thread)
Reqs == {"r1", "r2"}
\* names tempfile.NamedTemporaryFile can hand out
Paths == {"/tmp/tmpA", "/tmp/tmpB"}
\* Python's None
None == "None"
\* a key that a dict does not hold / a header that a response does not carry
Absent == "<absent>"
\* a value of a JSON field that is not a string (a number, say)
NonStr == "<non-str>"
\* size of a path that does not exist
NoFile == -1
\* byte lengths of the uploaded video
Sizes == {0, 10}
\* filenames of the multipart part; '' is the browser's "no file selected"
Filenames == {"", "a.txt"}
\* status codes the vendor answers with
StatusCodes == {200, 404, 429, 503}

\* ------------------------------------------------------------- responses
\* no response returned yet
NoResponse == [status |-> 0, body |-> [k \in {} |-> ""]]
\* jsonify({'error': msg}), 400
Resp400(msg) == [status |-> 400, body |-> [error |-> msg]]
\* jsonify({'error': category, 'detail': str(e)}), 500
Resp500(category, detail) ==
    [status |-> 500, body |-> [error |-> category, detail |-> detail]]
\* jsonify({'generated_documentation': generated_text})  (status 200)
Resp200(generated_text) ==
    [status |-> 200, body |-> [generated_documentation |-> generated_text]]
\* upload_video returns no response: the exception of class cls leaves it
\* (what the client then gets is made by Flask, not by the handler)
Raised(cls) == [status |-> 0, body |-> [exception |-> cls]]

\* ------------------------------------------------------------ exceptions
\* an exception: its class and str(e)
Exc(cls, msg) == [cls |-> cls, msg |-> msg]
\* no exception raised
NoExc == Exc("", "")
\* the classes deriving from requests.RequestException
RequestExceptions ==
    {"HTTPError", "ConnectionError", "Timeout", "RetryError", "InvalidHeader",
     "JSONDecodeError"}

\* isinstance(e, requests.RequestException)
IsRequestException(cls) == cls \in RequestExceptions

\* the two except clauses of upload_video
ExceptClause(e) ==
    IF IsRequestException(e.cls)
    THEN Resp500("Upload or generation failed", e.msg)
    ELSE Resp500("Internal server error", e.msg)

\* Response.raise_for_status(): HTTPError for 4xx and 5xx
raise_for_status(status_code) ==
    IF status_code >= 400 /\ status_code < 600
    THEN Exc("HTTPError", "HTTP status error")
    ELSE NoExc

\* what session.post / session.get itself raises: nothing, or a transport
\* error (RetryError: the retries were used up on responses of the
\* forcelist; InvalidHeader: the Retry-After of a response to be retried
\* could not be read)
Transport == {"", "ConnectionError", "Timeout", "RetryError", "InvalidHeader"}

\* ----------------------------------- the session of create_session_with_retries
\* main.py:29  Retry(total=3, ...)
retry_total == 3
\* main.py:29  backoff_factor=1
backoff_factor == 1
\* main.py:29  status_forcelist=[502, 503, 504]
status_forcelist == {502, 503, 504}
\* main.py:29  Retry is built without allowed_methods: a response, or a
\* failed read, is retried for these methods only
allowed_methods == {"DELETE", "GET", "HEAD", "OPTIONS", "PUT", "TRACE"}
\* Retry.RETRY_AFTER_STATUS_CODES: with a Retry-After header these statuses
\* are retried too (respect_retry_after_header is left at True)
RETRY_AFTER_STATUS_CODES == {413, 429, 503}

\* schemes of the URLs called: the vendor's endpoints are https; the upload
\* URL is the vendor's answer and may be of either scheme
Schemes == {"https", "http"}

\* main.py:30  session.mount('https://', HTTPAdapter(max_retries=retries)):
\* the Retry object of the adapter that serves the scheme.  The adapter
\* requests.Session mounts on 'http://' keeps the default Retry(0, read=False).
retries_of(scheme) ==
    IF scheme = "https"
    THEN [total |-> retry_total, read |-> TRUE, backoff_factor |-> backoff_factor,
          status_forcelist |-> status_forcelist]
    ELSE [total |-> 0, read |-> FALSE, backoff_factor |-> 0,
          status_forcelist |-> {}]

\* a response without a Retry-After header
NoRetryAfter == -1
\* a Retry-After header that is neither a number of seconds nor a date
BadRetryAfter == -2
\* Retry.parse_retry_after: the seconds of the Retry-After header of a
\* response.  A date in the past counts as 0 seconds, one to come as the
\* seconds until then.
RetryAfters == {NoRetryAfter, BadRetryAfter, 0, 7}

\* what the vendor does with one attempt of a call: no connection
\* ("connect"), no answer in time on an open connection ("read"), the
\* connection broken while the request is sent ("reset"), or a response
Attempts ==
    [err : {"connect", "read", "reset"}, status_code : {0}, retry_after : {NoRetryAfter}]
    \cup [err : {""}, status_code : StatusCodes, retry_after : RetryAfters]

\* Retry.is_retry with every status of 400 and above in the forcelist
is_retry_any_error(retries, method, status_code, has_retry_after) ==
    method \in allowed_methods /\ status_code >= 400

\* Retry.is_retry: the response is retried
is_retry(retries, method, status_code, has_retry_after) ==
    /\ method \in allowed_methods
    /\ \/ status_code \in retries.status_forcelist
       \/ /\ retries.total > 0
          /\ has_retry_after
          /\ status_code \in RETRY_AFTER_STATUS_CODES

\* Retry.get_backoff_time after n failed attempts in a row
get_backoff_time(retries, n) ==
    IF n <= 1 THEN 0 ELSE retries.backoff_factor * (2 ^ (n - 1))

\* Retry.sleep: the seconds slept before the next attempt.  After a
\* response sleep_for_retry sleeps the seconds of its Retry-After when
\* there are any; with no header, with 0 seconds, and after an attempt
\* that got no response, the session sleeps the backoff.
sleep_time(retries, a, n) ==
    IF a.err = "" /\ a.retry_after > 0 THEN a.retry_after
    ELSE get_backoff_time(retries, n)

\* a call of the session: its method and the scheme of its URL, the Retry
\* object as it stands, the attempts made so far, the seconds slept between
\* them, whether the call is still under way, and how it ended (the
\* exception raised, or the status of the response returned)
NoWire == [method |-> None, scheme |-> None, retries |-> retries_of("http"),
           tries |-> 0, slept |-> 0, open |-> FALSE,
           transport |-> "", status_code |-> 0]

\* session.post / session.get is entered
SessionOpen(method, scheme) ==
    [NoWire EXCEPT !.method = method, !.scheme = scheme,
                   !.retries = retries_of(scheme), !.open = TRUE]

\* the call ends: session.post / session.get raises transport, or returns
\* the response of status status_code
Surface(acc, transport, status_code) ==
    [acc EXCEPT !.open = FALSE, !.transport = transport,
                !.status_code = status_code]

\* Retry.increment and Retry.sleep: one retry is used up, and the session
\* sleeps before the next attempt.  After a response whose Retry-After
\* cannot be read Retry.sleep raises InvalidHeader instead, and the call
\* ends.
Again(acc, a) ==
    IF a.err = "" /\ a.retry_after = BadRetryAfter
    THEN Surface([acc EXCEPT !.retries.total = @ - 1], "InvalidHeader", 0)
    ELSE [acc EXCEPT !.retries.total = @ - 1,
                     !.slept = @ + sleep_time(acc.retries, a, acc.tries)]

\* HTTPAdapter.send / urlopen: one attempt of the call acc, answered a.  A
\* failed connection is retried for every method; a failed read for the
\* allowed methods, unless the Retry object has read=False; a response as
\* is_retry says; each retry takes one of total, and with none left the
\* call raises.
SessionAttempt(acc, a) ==
    LET now == [acc EXCEPT !.tries = @ + 1]
    IN  IF a.err = "connect"
        THEN IF now.retries.total > 0 THEN Again(now, a)
             ELSE Surface(now, "ConnectionError", 0)
        ELSE IF a.err \in {"read", "reset"}
        THEN IF ~now.retries.read \/ now.method \notin allowed_methods
             THEN Surface(now, IF a.err = "read" THEN "Timeout"
                               ELSE "ConnectionError", 0)
             ELSE IF now.retries.total > 0 THEN Again(now, a)
             ELSE Surface(now, "ConnectionError", 0)
        ELSE IF is_retry(now.retries, now.method, a.status_code,
                         a.retry_after # NoRetryAfter)
        THEN IF now.retries.total > 0 THEN Again(now, a)
             ELSE Surface(now, "RetryError", 0)
        ELSE Surface(now, "", a.status_code)

\* what the caller of session.post / session.get sees of a call: the
\* exception raised, or the status of the response returned
Outcome(w) == [transport |-> w.transport, status_code |-> w.status_code]

\* resp is a response (or transport error) the call out can come back with
Carries(out, resp) ==
    /\ resp.transport = out.transport
    /\ out.transport = "" => resp.status_code = out.status_code

\* the responses among Resps the call out comes back with; when the call
\* raises, or raise_for_status will, nothing else of the response is read
\* and one response stands for all
Answers(Resps, out) ==
    IF out.transport = "" /\ out.status_code < 400
    THEN { resp \in Resps : Carries(out, resp) }
    ELSE { CHOOSE resp \in Resps : Carries(out, resp) }

\* the session objects there can be
Sessions == {"s1", "s2"}

\* lines 27-31, called at line 54: a new Session object, which is none of
\* the objects live that exist already
create_session_with_retries(live) == CHOOSE s \in Sessions : s \notin live

\* what filetype.guess can find in the bytes of a file: nothing, or a mime
Kinds == {None, "video/mp4"}

\* get_mime_type: kind is filetype.guess(file_path), None or a mime
get_mime_type(kind) == IF kind # None THEN kind ELSE "application/octet-stream"

VARIABLES
    app,            \* the module main.py: being loaded, serving, or failed
    pc,             \* where each request's handler stands
    request,        \* the multipart request: video part present, filename,
                    \* size, and the kind filetype.guess finds in its bytes
    fs,             \* local storage: size of each path, NoFile when absent
    created,        \* the path NamedTemporaryFile created for the request
    unlinks,        \* how many times os.unlink ran for the request
    temp_filepath,  \* local of upload_video
    mime_type,      \* local of upload_video
    num_bytes,      \* local of upload_video
    upload_url,     \* local of upload_video
    file_uri,       \* local of upload_video, as the list file_uri.split('/')
    session,        \* local of upload_video: the session object of line 54
    attempt,        \* status queries made so far (loop variable + 1)
    slept,          \* total time the request's thread spent in time.sleep
    paused,         \* of slept, the time slept by the session inside its
                    \* calls (Retry.sleep between two attempts)
    call,           \* the session call the request is in, NoWire when in none
    retried,        \* attempts of the request's calls that were made again
    calls,          \* remote calls issued by the request, per step
    sent,           \* what the remote calls carried
    seen,           \* what the vendor answered, per step
    gen_data,       \* local of upload_video: the body of the generation response
    vendor,         \* a session call on its own: the vendor's answers so far
    wire,           \* a session call on its own: the call, attempt by attempt
    response        \* the response returned to the client

vars == <<app, pc, request, fs, created, unlinks, temp_filepath, mime_type,
          num_bytes, upload_url, file_uri, session, attempt, slept, paused, call,
          retried, calls, sent, seen, gen_data, vendor, wire, response>>

locals == <<temp_filepath, mime_type, num_bytes, upload_url, file_uri,
           session>>

session_call == <<vendor, wire>>

\* the time the request has slept, in the poll loop and inside its calls
clock == <<slept, paused>>

\* the session call of the request under way
under_way == <<call, retried>>

\* the requests in flight and the local storage
in_flight == <<pc, request, fs, created, unlinks, locals, attempt, slept, paused,
               call, retried, calls, sent, seen, gen_data, response>>

handler == <<app, in_flight>>

NoRequest == [has_video |-> FALSE, filename |-> "", size |-> 0, kind |-> None]
NoCalls == [initiate |-> 0, upload |-> 0, status |-> 0, generate |-> 0]
NoSent == [declared_len |-> NoFile, declared_type |-> None,
           content_len |-> NoFile, uploaded |-> NoFile, status_name |-> None,
           gen_uri |-> <<>>, gen_mime |-> None]
NoSeen == [initiate |-> None, upload |-> None, uri |-> <<>>, status |-> None,
           waiting |-> 0, generate |-> None]
NoGenData == [json |-> None, candidates |-> [t |-> "absent", items |-> <<>>]]

Init ==
    /\ app = [status |-> "loading", error |-> NoExc]
    /\ pc = [r \in Reqs |-> "start"]
    /\ request = [r \in Reqs |-> NoRequest]
    /\ fs = [p \in Paths |-> NoFile]
    /\ created = [r \in Reqs |-> None]
    /\ unlinks = [r \in Reqs |-> 0]
    /\ temp_filepath = [r \in Reqs |-> None]
    /\ mime_type = [r \in Reqs |-> None]
    /\ num_bytes = [r \in Reqs |-> NoFile]
    /\ upload_url = [r \in Reqs |-> None]
    /\ file_uri = [r \in Reqs |-> <<>>]
    /\ session = [r \in Reqs |-> None]
    /\ attempt = [r \in Reqs |-> 0]
    /\ slept = [r \in Reqs |-> 0]
    /\ paused = [r \in Reqs |-> 0]
    /\ call = [r \in Reqs |-> NoWire]
    /\ retried = [r \in Reqs |-> 0]
    /\ calls = [r \in Reqs |-> NoCalls]
    /\ sent = [r \in Reqs |-> NoSent]
    /\ seen = [r \in Reqs |-> NoSeen]
    /\ gen_data = [r \in Reqs |-> NoGenData]
    /\ vendor = <<>>
    /\ wire = NoWire
    /\ response = [r \in Reqs |-> NoResponse]

\* lines 16-18 and 34: what loading the module raises.  key_set: the
\* environment holds GEMINI_API_KEY.  bound: the name cross_origin resolves
\* when the decorator of line 34 is evaluated; main.py imports only CORS
\* from flask_cors (line 11), so with the source as it stands it does not.
LoadError(key_set, bound) ==
    IF ~key_set
    THEN Exc("ValueError", "GEMINI_API_KEY not set in environment")
    ELSE IF ~bound
    THEN Exc("NameError", "name 'cross_origin' is not defined")
    ELSE NoExc

\* lines 1-34: main.py is loaded.  When loading raises, upload_video is
\* never defined, its route is never registered and no request is served;
\* the handler is examined for a load in which cross_origin resolves to
\* flask_cors.cross_origin.
Load ==
    /\ app.status = "loading"
    /\ \E key_set \in BOOLEAN, bound \in BOOLEAN :
         LET e == LoadError(key_set, bound)
         IN  app' = [status |-> IF e = NoExc THEN "serving" ELSE "failed",
                     error |-> e]
    /\ UNCHANGED <<in_flight, session_call>>

\* os.path.exists
Exists(files, p) == p \in Paths /\ files[p] # NoFile

\* whether the finally clause calls os.unlink
Unlinks(files, tfp) == IF tfp # None /\ Exists(files, tfp) THEN 1 ELSE 0

\* line 156: how os.unlink can go when the finally clause calls it.  It
\* removes the file; or it raises and the file stays (PermissionError: the
\* directory is not writable any more, the file is in use); or the file
\* was removed by someone else after os.path.exists found it and it raises
\* FileNotFoundError.  "skipped": the test of line 155 fails and os.unlink
\* is not called.
UnlinkOutcomes(files, tfp) ==
    IF Unlinks(files, tfp) = 1 THEN {"removed", "denied", "gone"}
    ELSE {"skipped"}

\* what os.unlink raises
UnlinkError(how) ==
    IF how = "denied" THEN "PermissionError"
    ELSE IF how = "gone" THEN "FileNotFoundError"
    ELSE ""

\* the finally clause: the local storage it leaves behind
Finally(files, tfp, how) ==
    IF how \in {"removed", "gone"}
    THEN [files EXCEPT ![tfp] = NoFile]
    ELSE files

\* The handler returns resp from inside the try statement (or from an except
\* clause): the finally clause runs with the local temp_filepath = tfp on the
\* storage files, and the response goes out.  No except clause stands
\* around the finally clause: when os.unlink raises, its exception takes
\* the place of the response and leaves upload_video.
Return(r, resp, files, tfp) ==
    \E how \in UnlinkOutcomes(files, tfp) :
        /\ response' = [response EXCEPT ![r] =
                            IF UnlinkError(how) # ""
                            THEN Raised(UnlinkError(how)) ELSE resp]
        /\ fs' = Finally(files, tfp, how)
        /\ unlinks' = [unlinks EXCEPT ![r] = @ + Unlinks(files, tfp)]
        /\ pc' = [pc EXCEPT ![r] = "done"]

\* lines 37-41 without the test of the filename
InputErrorNoFilenameTest(has_video, filename) ==
    IF ~has_video THEN "No video file part" ELSE ""

\* lines 37-41: the message of the 400 response, '' for a request that passes
InputError(has_video, filename) ==
    IF ~has_video THEN "No video file part"
    ELSE IF filename = "" THEN "No selected file"
    ELSE ""

\* lines 37-41: the request arrives and is validated.  request.files
\* reads the multipart body when it is first used, at line 37, and keeps
\* the larger parts in a temporary file: reading can raise (read: FALSE;
\* the storage is full, the client has gone), and these lines stand before
\* the try statement, so the exception leaves upload_video.
Validate(r) ==
    /\ app.status = "serving"
    /\ pc[r] = "start"
    /\ \E has_video \in BOOLEAN, filename \in Filenames, size \in Sizes,
          kind \in Kinds, read \in BOOLEAN :
         LET msg == InputError(has_video, filename)
         IN  /\ request' = [request EXCEPT ![r] =
                    [has_video |-> has_video,
                     filename |-> IF has_video THEN filename ELSE "",
                     size |-> IF has_video THEN size ELSE 0,
                     kind |-> IF has_video /\ filename # "" THEN kind ELSE None]]
             /\ IF ~read
                THEN /\ response' = [response EXCEPT ![r] = Raised("OSError")]
                     /\ pc' = [pc EXCEPT ![r] = "done"]
                ELSE IF msg # ""
                THEN /\ response' = [response EXCEPT ![r] = Resp400(msg)]
                     /\ pc' = [pc EXCEPT ![r] = "done"]
                ELSE /\ pc' = [pc EXCEPT ![r] = "save"]
                     /\ UNCHANGED response
    /\ UNCHANGED <<fs, created, unlinks, locals, attempt, clock, under_way,
                   calls, sent, seen, gen_data, session_call, app>>

\* line 46 taking any name, that of an existing file included
AnyNames(files) == Paths

\* line 46: NamedTemporaryFile creates its file under a name no file has
FreshNames(files) == { p \in Paths : ~Exists(files, p) }

\* line 46 with the default delete=True: closing the file removes it
CloseTempDeleting(files, p) == [files EXCEPT ![p] = NoFile]

\* line 46, delete=False: the end of the with block closes the temporary
\* file and leaves it in place
CloseTemp(files, p) == files

\* line 47: the bytes video.save can have written to the file when it
\* raises: none, a part of the upload, or all of it
Written(size) == {0, size \div 2, size}

\* lines 44-48: NamedTemporaryFile(delete=False), video.save, temp_filepath.
\* NamedTemporaryFile may raise (no name left, disk full) before any file
\* exists; video.save may raise after the file was created and before
\* temp_filepath is assigned, leaving the bytes it has written.
SaveTemp(r) ==
    /\ pc[r] = "save"
    /\ \/ /\ Return(r, ExceptClause(Exc("OSError", "cannot create temporary file")),
                    fs, None)
          /\ UNCHANGED <<created, locals>>
       \/ \E p \in FreshNames(fs) :
            /\ created' = [created EXCEPT ![r] = p]
            /\ \/ \E n \in Written(request[r].size) :
                    /\ Return(r, ExceptClause(Exc("OSError", "cannot save upload")),
                              CloseTemp([fs EXCEPT ![p] = n], p), temp_filepath[r])
                    /\ UNCHANGED locals
               \/ /\ fs' = CloseTemp([fs EXCEPT ![p] = request[r].size], p)
                  /\ temp_filepath' = [temp_filepath EXCEPT ![r] = p]
                  /\ pc' = [pc EXCEPT ![r] = "initiate"]
                  /\ UNCHANGED <<unlinks, response, mime_type, num_bytes,
                                 upload_url, file_uri, session>>
    /\ UNCHANGED <<request, attempt, clock, under_way, calls, sent, seen,
                   gen_data, session_call, app>>

\* ------------------------------------- the session call of a request
\* time.sleep with the call written twice
time_sleep_twice(elapsed, secs) == elapsed + secs + secs

\* time.sleep(secs): the time the request has spent waiting, after the call
time_sleep(elapsed, secs) == elapsed + secs

\* attempts made again in one request, over all its calls: the vendor
\* fails no more of them
MaxRetried == 3

\* the request is in no session call
Idle(r) == call[r] = NoWire

\* session.post / session.get of the request has come back: it returned a
\* response or raised
Returned(r) == call[r] # NoWire /\ ~call[r].open

\* lines 66, 79, 93, 129, inside session.post / session.get: one attempt of
\* the call the request is in.  The vendor answers a, and the session
\* returns, raises, or sleeps on the request's own thread (Retry.sleep calls
\* time.sleep) and goes on to the next attempt.
Send(r) ==
    /\ call[r].open
    /\ \E a \in Attempts :
         LET next == SessionAttempt(call[r], a)
             secs == next.slept - call[r].slept
         IN  /\ next.open => retried[r] < MaxRetried
             /\ call' = [call EXCEPT ![r] = next]
             /\ retried' = [retried EXCEPT ![r] =
                                IF next.open THEN @ + 1 ELSE @]
             /\ slept' = [slept EXCEPT ![r] = time_sleep(@, secs)]
             /\ paused' = [paused EXCEPT ![r] = time_sleep(@, secs)]
    /\ UNCHANGED <<pc, request, fs, created, unlinks, locals, attempt, calls,
                   sent, seen, gen_data, response, session_call, app>>

\* ------------------------------------------------- step 1: initiate
\* upload URLs the vendor hands out: X, of scheme https, and one of scheme
\* http
UploadUrls == {"X", "http://X"}

\* the scheme of an upload URL, which selects the adapter of the session
scheme_of(url) == IF url = "http://X" THEN "http" ELSE "https"

\* what the initiation endpoint can answer: a transport error raised by
\* session.post, or a status code and the x-goog-upload-url header
StartResponses ==
    [transport : Transport, status_code : StatusCodes,
     upload_url : {Absent, ""} \cup UploadUrls]

\* the answer of the initiation endpoint, as the vendor gave it
StartAnswer(resp) ==
    IF resp.transport # "" THEN "transport"
    ELSE IF resp.status_code >= 400 THEN "http_error"
    ELSE IF resp.upload_url \in {Absent, ""} THEN "no_upload_url"
    ELSE "ok"

\* lines 66-70 without the test `if not upload_url` of line 69
StartExcNoUrlTest(resp) ==
    IF resp.transport # "" THEN Exc(resp.transport, "transport error")
    ELSE raise_for_status(resp.status_code)

\* lines 66-70: the exception the initiation step raises on resp, if any
StartExc(resp) ==
    IF resp.transport # "" THEN Exc(resp.transport, "transport error")
    ELSE IF raise_for_status(resp.status_code) # NoExc
    THEN raise_for_status(resp.status_code)
    ELSE IF resp.upload_url \in {Absent, ""}
    THEN Exc("ValueError", "No upload URL returned")
    ELSE NoExc

\* lines 50-66: mime type and size of the temporary file (both raise when
\* the file is not there), the session, and session.post of the initiation
\* is entered
Initiate(r) ==
    /\ pc[r] = "initiate" /\ Idle(r)
    /\ IF ~Exists(fs, temp_filepath[r])
       THEN /\ Return(r, ExceptClause(Exc("FileNotFoundError", "No such file")),
                      fs, temp_filepath[r])
            /\ UNCHANGED <<mime_type, num_bytes, session, calls, sent, call>>
       ELSE LET mt == get_mime_type(request[r].kind)
                nb == fs[temp_filepath[r]]
            IN  /\ mime_type' = [mime_type EXCEPT ![r] = mt]
                /\ session' = [session EXCEPT ![r] =
                       create_session_with_retries(
                           {session[q] : q \in Reqs} \ {None})]
                /\ num_bytes' = [num_bytes EXCEPT ![r] = nb]
                /\ calls' = [calls EXCEPT ![r].initiate = @ + 1]
                /\ sent' = [sent EXCEPT ![r].declared_len = nb,
                                        ![r].declared_type = mt]
                /\ call' = [call EXCEPT ![r] = SessionOpen("POST", "https")]
                /\ UNCHANGED <<pc, fs, unlinks, response>>
    /\ UNCHANGED <<request, created, temp_filepath, upload_url, file_uri,
                   attempt, clock, retried, seen, gen_data, session_call, app>>

\* lines 66-70: session.post of the initiation has come back;
\* raise_for_status, and the upload URL is taken from the header
Initiated(r) ==
    /\ pc[r] = "initiate" /\ Returned(r)
    /\ \E resp \in Answers(StartResponses, Outcome(call[r])) :
         LET e == StartExc(resp)
         IN  /\ seen' = [seen EXCEPT ![r].initiate = StartAnswer(resp)]
             /\ call' = [call EXCEPT ![r] = NoWire]
             /\ IF e # NoExc
                THEN /\ Return(r, ExceptClause(e), fs, temp_filepath[r])
                     /\ UNCHANGED upload_url
                ELSE /\ upload_url' = [upload_url EXCEPT ![r] = resp.upload_url]
                     /\ pc' = [pc EXCEPT ![r] = "upload"]
                     /\ UNCHANGED <<fs, unlinks, response>>
    /\ UNCHANGED <<request, created, temp_filepath, mime_type, num_bytes,
                   session, file_uri, attempt, clock, retried, calls, sent,
                   gen_data, session_call, app>>

\* ---------------------------------------------------- step 2: upload
\* values of file.uri in the upload response: absent, null, a value that is
\* no string and false (0, false, []: "falsy") or true (5, true, [1]:
\* "truthy"), or a string, held as the list of its segments between '/', so
\* '' is <<"">>
UriValues ==
    { [t |-> "absent", v |-> <<>>], [t |-> "null", v |-> <<>>],
      [t |-> "falsy", v |-> <<>>], [t |-> "truthy", v |-> <<>>],
      [t |-> "str", v |-> <<"">>],
      [t |-> "str", v |-> <<"files", "abc123">>],
      [t |-> "str", v |-> <<"xyz">>] }

\* what the upload endpoint can answer: the body is not JSON, JSON that is
\* not an object, or an object whose "file" is absent, not an object, or an
\* object with the uri above
UploadResponses ==
    [transport : Transport, status_code : StatusCodes,
     json : {"invalid", "nondict", "dict"},
     file : {Absent, "nondict", "dict"}, uri : UriValues]

\* file_info.get('file', {}).get('uri', ''), for a body that is an object
\* whose "file" is absent or an object
UriOf(resp) ==
    IF resp.file = Absent \/ resp.uri.t = "absent"
    THEN [t |-> "str", v |-> <<"">>]
    ELSE resp.uri

\* `not file_uri`
UriFalsy(uri) ==
    uri.t \in {"null", "falsy"} \/ (uri.t = "str" /\ uri.v = <<"">>)

\* the answer of the upload endpoint, as the vendor gave it
UploadAnswer(resp) ==
    IF resp.transport # "" THEN "transport"
    ELSE IF resp.status_code >= 400 THEN "http_error"
    ELSE IF resp.json # "dict" \/ resp.file = "nondict" THEN "malformed"
    ELSE IF resp.file = Absent \/ resp.uri.t \in {"absent", "null", "falsy"}
            \/ resp.uri.v = <<"">> THEN "no_file_uri"
    ELSE IF resp.uri.t # "str" THEN "malformed"
    ELSE "ok"

\* lines 79-87 without the test `if not file_uri` of line 85
UploadExcNoUriTest(resp) ==
    IF resp.transport # "" THEN Exc(resp.transport, "transport error")
    ELSE IF raise_for_status(resp.status_code) # NoExc
    THEN raise_for_status(resp.status_code)
    ELSE IF resp.json = "invalid"
    THEN Exc("JSONDecodeError", "Expecting value")
    ELSE IF resp.json = "nondict" \/ resp.file = "nondict"
    THEN Exc("AttributeError", "object has no attribute 'get'")
    ELSE IF UriOf(resp).t # "str"
    THEN Exc("AttributeError", "object has no attribute 'split'")
    ELSE NoExc

\* lines 79-87: the exception the upload step raises on resp, if any
UploadExc(resp) ==
    IF resp.transport # "" THEN Exc(resp.transport, "transport error")
    ELSE IF raise_for_status(resp.status_code) # NoExc
    THEN raise_for_status(resp.status_code)
    ELSE IF resp.json = "invalid"
    THEN Exc("JSONDecodeError", "Expecting value")
    ELSE IF resp.json = "nondict" \/ resp.file = "nondict"
    THEN Exc("AttributeError", "object has no attribute 'get'")
    ELSE IF UriFalsy(UriOf(resp))
    THEN Exc("ValueError", "No file URI returned")
    ELSE IF UriOf(resp).t # "str"
    THEN Exc("AttributeError", "object has no attribute 'split'")
    ELSE NoExc

\* line 87: file_uri.split('/')[-1], the name the status URL of line 90 ends in
file_name(uri) == uri[Len(uri)]

\* lines 73-79: the temporary file is opened (which raises when it is not
\* there) and session.post to the upload URL is entered, the file its body
Upload(r) ==
    /\ pc[r] = "upload" /\ Idle(r)
    /\ IF ~Exists(fs, temp_filepath[r])
       THEN /\ Return(r, ExceptClause(Exc("FileNotFoundError", "No such file")),
                      fs, temp_filepath[r])
            /\ UNCHANGED <<calls, sent, call>>
       ELSE /\ calls' = [calls EXCEPT ![r].upload = @ + 1]
            /\ sent' = [sent EXCEPT ![r].content_len = num_bytes[r],
                                    ![r].uploaded = fs[temp_filepath[r]]]
            /\ call' = [call EXCEPT ![r] =
                           SessionOpen("POST", scheme_of(upload_url[r]))]
            /\ UNCHANGED <<pc, fs, unlinks, response>>
    /\ UNCHANGED <<request, created, locals, attempt, clock, retried, seen,
                   gen_data, session_call, app>>

\* lines 79-87: session.post of the upload has come back; raise_for_status,
\* and the file URI is taken from the body
Uploaded(r) ==
    /\ pc[r] = "upload" /\ Returned(r)
    /\ \E resp \in Answers(UploadResponses, Outcome(call[r])) :
         LET e == UploadExc(resp)
         IN  /\ seen' = [seen EXCEPT ![r].upload = UploadAnswer(resp),
                                     ![r].uri = resp.uri.v]
             /\ call' = [call EXCEPT ![r] = NoWire]
             /\ IF e # NoExc
                THEN /\ Return(r, ExceptClause(e), fs, temp_filepath[r])
                     /\ UNCHANGED file_uri
                ELSE /\ file_uri' = [file_uri EXCEPT ![r] = UriOf(resp).v]
                     /\ pc' = [pc EXCEPT ![r] = "poll"]
                     /\ UNCHANGED <<fs, unlinks, response>>
    /\ UNCHANGED <<request, created, temp_filepath, mime_type, num_bytes,
                   upload_url, session, attempt, clock, retried, calls, sent,
                   gen_data, session_call, app>>

\* ------------------------------------------------------ step 3: poll
\* what the status endpoint can answer
StatusResponses ==
    [transport : Transport, status_code : StatusCodes,
     json : {"invalid", "nondict", "dict"},
     state : {Absent, "ACTIVE", "FAILED", "PROCESSING", "STATE_UNSPECIFIED"}]

\* status_resp.json().get("state", "")
StateOf(resp) == IF resp.state = Absent THEN "" ELSE resp.state

\* the answer of the status endpoint, as the vendor gave it
StatusAnswer(resp) ==
    IF resp.transport # "" THEN "transport"
    ELSE IF resp.status_code >= 400 THEN "http_error"
    ELSE IF resp.json # "dict" THEN "malformed"
    ELSE IF resp.state = Absent THEN "no_state"
    ELSE resp.state

\* the vendor answered a state that is neither ACTIVE nor FAILED
Waiting(answer) == answer \in {"no_state", "PROCESSING", "STATE_UNSPECIFIED"}

\* lines 93-99 without the elif branch of lines 98-99
PollExcNoFailedBranch(resp) ==
    IF resp.transport # "" THEN Exc(resp.transport, "transport error")
    ELSE IF raise_for_status(resp.status_code) # NoExc
    THEN raise_for_status(resp.status_code)
    ELSE IF resp.json = "invalid"
    THEN Exc("JSONDecodeError", "Expecting value")
    ELSE IF resp.json = "nondict"
    THEN Exc("AttributeError", "object has no attribute 'get'")
    ELSE NoExc

\* lines 93-99: the exception one status query raises on resp, if any
PollExc(resp) ==
    IF resp.transport # "" THEN Exc(resp.transport, "transport error")
    ELSE IF raise_for_status(resp.status_code) # NoExc
    THEN raise_for_status(resp.status_code)
    ELSE IF resp.json = "invalid"
    THEN Exc("JSONDecodeError", "Expecting value")
    ELSE IF resp.json = "nondict"
    THEN Exc("AttributeError", "object has no attribute 'get'")
    ELSE IF StateOf(resp) = "FAILED"
    THEN Exc("ValueError", "File processing failed")
    ELSE NoExc

\* line 96 comparing with a state the vendor never sends: no break
BreaksOnMisspeltState(status) == status = "Active"

\* line 96: the state that leaves the loop by break
Breaks(status) == status = "ACTIVE"

\* lines 92-93: one iteration of the poll loop begins, and session.get of
\* the status URL is entered
Poll(r) ==
    /\ pc[r] = "poll" /\ Idle(r)
    /\ attempt' = [attempt EXCEPT ![r] = @ + 1]
    /\ calls' = [calls EXCEPT ![r].status = @ + 1]
    /\ sent' = [sent EXCEPT ![r].status_name = file_name(file_uri[r])]
    /\ call' = [call EXCEPT ![r] = SessionOpen("GET", "https")]
    /\ UNCHANGED <<pc, request, fs, created, unlinks, locals, clock, retried,
                   seen, gen_data, response, session_call, app>>

\* lines 93-99: session.get of the status URL has come back;
\* raise_for_status, and the state is read
Polled(r) ==
    /\ pc[r] = "poll" /\ Returned(r)
    /\ \E resp \in Answers(StatusResponses, Outcome(call[r])) :
         LET e == PollExc(resp)
         IN  /\ seen' = [seen EXCEPT ![r].status = StatusAnswer(resp),
                                     ![r].waiting =
                                        IF Waiting(StatusAnswer(resp))
                                        THEN @ + 1 ELSE @]
             /\ call' = [call EXCEPT ![r] = NoWire]
             /\ IF e # NoExc
                THEN Return(r, ExceptClause(e), fs, temp_filepath[r])
                ELSE /\ pc' = [pc EXCEPT ![r] =
                            IF Breaks(StateOf(resp)) THEN "generate" ELSE "sleep"]
                     /\ UNCHANGED <<fs, unlinks, response>>
    /\ UNCHANGED <<request, created, locals, attempt, clock, retried, calls,
                   sent, gen_data, session_call, app>>

\* line 92 with range(max_attempts + 1)
ExhaustedOneLate(n) == n >= max_attempts + 1

\* line 92 with range(max_attempts - 1)
ExhaustedOneEarly(n) == n >= max_attempts - 1

\* line 92: range(max_attempts) is exhausted after n status queries
Exhausted(n) == n >= max_attempts

\* lines 100-102 and the loop header: sleep, then either the next iteration
\* or, the range being exhausted, the else clause of the for statement
Sleep(r) ==
    /\ pc[r] = "sleep"
    /\ slept' = [slept EXCEPT ![r] = time_sleep(@, PollInterval)]
    /\ IF Exhausted(attempt[r])
       THEN Return(r, ExceptClause(Exc("TimeoutError", "File processing timed out")),
                   fs, temp_filepath[r])
       ELSE /\ pc' = [pc EXCEPT ![r] = "poll"]
            /\ UNCHANGED <<fs, unlinks, response>>
    /\ UNCHANGED <<request, created, locals, attempt, paused, under_way,
                   calls, sent, seen, gen_data, session_call, app>>

\* -------------------------------------------------- step 4: generate
\* sequences over S of length at most n
SeqUpTo(S, n) == UNION { [1..k -> S] : k \in 0..n }

\* one element of "parts": not an object, or an object whose "text" is
\* absent, not a string, or a string
Parts ==
    { [t |-> "nondict", text |-> Absent] } \cup
    [t : {"dict"}, text : {Absent, NonStr, "", "# Doc", "!"}]

\* the value of "parts": absent; a list; something that is no list and
\* iterates over nothing ('' or {}); or anything else ("bad": null, a
\* number, a non-empty string or object)
NoParts(t) == [t |-> t, items |-> <<>>]
PartsValues ==
    { NoParts("absent"), NoParts("empty_iter"), NoParts("bad") } \cup
    [t : {"list"}, items : SeqUpTo(Parts, MaxParts)]

\* the value of "content" of a candidate: absent, not an object, an object
ContentValues ==
    { [t |-> "absent", parts |-> NoParts("absent")],
      [t |-> "nondict", parts |-> NoParts("absent")] } \cup
    [t : {"dict"}, parts : PartsValues]

\* the first candidate: not an object, or an object
FirstCandidates ==
    { [t |-> "nondict", content |-> [t |-> "absent", parts |-> NoParts("absent")]] }
    \cup [t : {"dict"}, content : ContentValues]

\* the candidates after the first
OtherCandidates ==
    { [t |-> "nondict", content |-> [t |-> "absent", parts |-> NoParts("absent")]],
      [t |-> "dict", content |-> [t |-> "dict", parts |->
          [t |-> "list", items |-> << [t |-> "dict", text |-> "zz"] >>]]] }

\* the value of "candidates": absent; a list; or no list, falsy (null, 0,
\* '', {}) or truthy (a number, a non-empty string or object)
NoCandidates(t) == [t |-> t, items |-> <<>>]
CandidatesValues ==
    { NoCandidates("absent"), NoCandidates("falsy"), NoCandidates("truthy"),
      NoCandidates("list") } \cup
    { [t |-> "list", items |-> <<c>> \o rest] :
        c \in FirstCandidates, rest \in SeqUpTo(OtherCandidates, MaxCandidates - 1) }

\* the body of the generation response: not JSON, JSON that is no object,
\* or an object
GenBodies ==
    { [json |-> "invalid", candidates |-> NoCandidates("absent")],
      [json |-> "nondict", candidates |-> NoCandidates("absent")] } \cup
    [json : {"dict"}, candidates : CandidatesValues]

\* what the generation endpoint can answer
GenResponses ==
    [transport : Transport \ {""}, status_code : {200},
     body : {[json |-> "invalid", candidates |-> NoCandidates("absent")]}] \cup
    [transport : {""}, status_code : StatusCodes \ {200},
     body : {[json |-> "invalid", candidates |-> NoCandidates("absent")]}] \cup
    [transport : {""}, status_code : {200}, body : GenBodies]

\* the body with one candidate whose parts are "# Doc" and "!"
DocBody ==
    [json |-> "dict", candidates |-> [t |-> "list", items |->
        << [t |-> "dict", content |-> [t |-> "dict", parts |->
              [t |-> "list", items |-> << [t |-> "dict", text |-> "# Doc"],
                                           [t |-> "dict", text |-> "!"] >>]]] >>]]

\* three bodies to stand for all: no JSON, an object without candidates,
\* DocBody
SampleGenResponses ==
    { resp \in GenResponses :
        resp.body \in {[json |-> "invalid", candidates |-> NoCandidates("absent")],
                       [json |-> "dict", candidates |-> NoCandidates("absent")],
                       DocBody} }

\* What the handler makes of the generation body does not depend on how the
\* request came to the generation call: the bodies are gone through in full
\* for the requests served alone whose first status query returned ACTIVE
\* with no attempt of a call made again, and the sample stands for all
\* otherwise.
GenResponsesOf(r) ==
    IF /\ retried[r] = 0 /\ seen[r].waiting = 0
       /\ \A q \in Reqs \ {r} : pc[q] = "start"
    THEN GenResponses ELSE SampleGenResponses

\* the answer of the generation endpoint, as the vendor gave it
GenAnswer(resp) ==
    IF resp.transport # "" THEN "transport"
    ELSE IF resp.status_code >= 400 THEN "http_error"
    ELSE IF resp.body.json = "invalid" THEN "not_json"
    ELSE "ok"

\* lines 129-132: the exception the generation call raises on resp, if any;
\* gen_resp.json() stands before the try statement of the parsing
GenExc(resp) ==
    IF resp.transport # "" THEN Exc(resp.transport, "transport error")
    ELSE IF raise_for_status(resp.status_code) # NoExc
    THEN raise_for_status(resp.status_code)
    ELSE IF resp.body.json = "invalid"
    THEN Exc("JSONDecodeError", "Expecting value")
    ELSE NoExc

\* line 139: part.get("text", "")
PartText(part) == IF part.text = Absent THEN "" ELSE part.text

\* line 139 raises: the part has no .get, or its text is no string
PartRaises(part) == part.t # "dict" \/ part.text = NonStr

\* lines 138-139 with `=` for `+=`: the text of the last part only
JoinPartsLastOnly(parts) ==
    IF parts = <<>> THEN "" ELSE PartText(parts[Len(parts)])

\* lines 138-139: generated_text after the loop over parts
RECURSIVE JoinParts(_)
JoinParts(parts) ==
    IF parts = <<>> THEN ""
    ELSE PartText(Head(parts)) \o JoinParts(Tail(parts))

\* line 137 with candidates[-1]
PartsOfLastCandidate(candidates) ==
    LET content == candidates.items[Len(candidates.items)].content
    IN  IF content.t = "absent" THEN NoParts("absent") ELSE content.parts

\* line 137: the parts the loop runs over, for candidates that are truthy
PartsOf(candidates) ==
    LET content == candidates.items[1].content
    IN  IF content.t = "absent" THEN NoParts("absent") ELSE content.parts

\* line 136: `if candidates`
Truthy(candidates) ==
    candidates.t = "truthy" \/ (candidates.t = "list" /\ candidates.items # <<>>)

\* lines 135-139 raise an exception on the body
ParseRaises(body) ==
    \/ body.json # "dict"
    \/ /\ Truthy(body.candidates)
       /\ \/ body.candidates.t # "list"
          \/ body.candidates.items[1].t # "dict"
          \/ body.candidates.items[1].content.t = "nondict"
          \/ PartsOf(body.candidates).t = "bad"
          \/ \E i \in 1..Len(PartsOf(body.candidates).items) :
                PartRaises(PartsOf(body.candidates).items[i])

\* lines 133-144: generated_text for the body
ParseGenerated(body) ==
    IF ParseRaises(body) THEN "Failed to parse generated content"
    ELSE LET text == IF Truthy(body.candidates)
                     THEN JoinParts(PartsOf(body.candidates).items)
                     ELSE ""
         IN  IF text = "" THEN "No content generated" ELSE text

\* lines 117-124 with the file referred to by its name, not by its URI
generation_payload_by_name(mt, uri) ==
    [mime_type |-> mt, file_uri |-> << uri[Len(uri)] >>]

\* lines 117-124: the file_data part of the generation payload
generation_payload(mt, uri) == [mime_type |-> mt, file_uri |-> uri]

\* lines 105-129: the payload is built and session.post of the generation
\* is entered
Generate(r) ==
    /\ pc[r] = "generate" /\ Idle(r)
    /\ calls' = [calls EXCEPT ![r].generate = @ + 1]
    /\ sent' = [sent EXCEPT ![r].gen_uri =
                               generation_payload(mime_type[r], file_uri[r]).file_uri,
                            ![r].gen_mime =
                               generation_payload(mime_type[r], file_uri[r]).mime_type]
    /\ call' = [call EXCEPT ![r] = SessionOpen("POST", "https")]
    /\ UNCHANGED <<pc, request, fs, created, unlinks, locals, attempt, clock,
                   retried, seen, gen_data, response, session_call, app>>

\* lines 129-146: session.post of the generation has come back;
\* raise_for_status, and the body is parsed
Generated(r) ==
    /\ pc[r] = "generate" /\ Returned(r)
    /\ \E resp \in Answers(GenResponsesOf(r), Outcome(call[r])) :
         LET e == GenExc(resp)
         IN  /\ seen' = [seen EXCEPT ![r].generate = GenAnswer(resp)]
             /\ call' = [call EXCEPT ![r] = NoWire]
             /\ IF e # NoExc
                THEN /\ Return(r, ExceptClause(e), fs, temp_filepath[r])
                     /\ UNCHANGED gen_data
                ELSE /\ gen_data' = [gen_data EXCEPT ![r] = resp.body]
                     /\ Return(r, Resp200(ParseGenerated(resp.body)), fs,
                               temp_filepath[r])
    /\ UNCHANGED <<request, created, locals, attempt, clock, retried, calls,
                   sent, session_call, app>>

\* ------------------------------------------------------- specification
\* the handler of POST /upload-video, serving request r
upload_video(r) ==
    \/ Validate(r)
    \/ SaveTemp(r)
    \/ Initiate(r)
    \/ Upload(r)
    \/ Poll(r)
    \/ Sleep(r)
    \/ Generate(r)
    \/ Send(r)
    \/ Initiated(r)
    \/ Uploaded(r)
    \/ Polled(r)
    \/ Generated(r)

\* the requests that arrive
Arriving == {"r1"}

\* Whether and when a request completes does not depend on the text that
\* is generated: one body of the generation response stands for all.
Plain(r) ==
    gen_data[r] \in {NoGenData,
                     [json |-> "dict", candidates |-> NoCandidates("absent")]}

\* How a call is attempted again does not depend on the bytes of the file,
\* on its name in the local storage or on the URI the vendor gives it: the
\* requests some attempt of which is made again are those of a 10-byte file
\* of no detected kind, saved as /tmp/tmpA and given the URI files/abc123.
Settled(r) ==
    \/ retried[r] = 0
    \/ /\ request[r].size = 10 /\ request[r].kind = None
       /\ created[r] = "/tmp/tmpA"
       /\ seen[r].uri \in {<<>>, <<"files", "abc123">>}

\* no exception has left upload_video for the request
Handled(r) == "exception" \notin DOMAIN response[r].body

\* The handler with the local storage in order where no except clause
\* stands: the multipart body is read (line 37) and os.unlink removes the
\* file it is called for (line 156).
Next ==
    \/ Load
    \/ \E r \in Arriving : upload_video(r) /\ Settled(r)' /\ Handled(r)'

Spec == Init /\ [][Next]_vars

\* The handler with every outcome of the local file operations, those of
\* lines 37 and 156 included.
NextLocal ==
    \/ Load
    \/ \E r \in Arriving : upload_video(r) /\ Settled(r)'

SpecLocal == Init /\ [][NextLocal]_vars

\* Nor does it depend on the bytes of the file, on its name in the local
\* storage, or on the URI the vendor gives it: one of each stands for all;
\* the local storage is in order as under Spec.
Steady(r) ==
    /\ request[r] = NoRequest \/ request[r].size = 10
    /\ request[r].kind = None
    /\ created[r] \in {None, "/tmp/tmpA"}
    /\ upload_url[r] \in {None, "X"}
    /\ seen[r].uri \in {<<>>, <<"files", "abc123">>}
    /\ Plain(r)
    /\ Handled(r)

NextLive ==
    \/ Load
    \/ \E r \in Arriving : upload_video(r) /\ Steady(r)'

\* The handler's thread keeps running, and every remote call returns or
\* times out (timeout=30, timeout=(30, 300)): a step that can be taken is
\* taken.
SpecLive == Init /\ [][NextLive]_vars /\ WF_vars(NextLive)

\* ------------------------------------------- two requests at a time
\* With two requests in flight the client and the vendor are held to a few
\* behaviours per request: a video part with a filename and no detected
\* kind, at most MaxConcurrentPolls status queries each, the last of them
\* not answered with a state to wait on, and at most MaxConcurrentRetried
\* attempts made again in all, each call answered with 200 or with 404, a
\* generation body without candidates; the local storage is in order as
\* under Spec.  The file of r1 has 10 bytes and that of r2 none, so that
\* the bytes of one are told from those of the other.  What is held is what
\* the client sends and the vendor answers: to each answer let through the
\* handler reacts as it does, a 404 to any of the four calls being answered
\* with the 500 of raise_for_status.
MaxConcurrentPolls == 2
MaxConcurrentRetried == 1

Held(r) ==
    /\ attempt[r] <= MaxConcurrentPolls
    /\ pc[r] = "sleep" => attempt[r] < MaxConcurrentPolls
    /\ retried["r1"] + retried["r2"] <= MaxConcurrentRetried
    /\ call[r].transport = "" /\ call[r].status_code \in {0, 200, 404}
    /\ Handled(r)
    /\ request[r].kind = None
    /\ request[r].has_video /\ request[r].filename # ""
    /\ request[r].size = (IF r = "r1" THEN 10 ELSE 0)
    /\ upload_url[r] \in {None, "X"}
    /\ seen[r].initiate \in {None, "ok", "http_error"}
    /\ seen[r].upload \in {None, "ok", "http_error"}
    /\ seen[r].uri \in {<<>>, <<"xyz">>}
    /\ seen[r].status \in {None, "ACTIVE", "FAILED", "PROCESSING", "http_error"}
    /\ seen[r].generate \in {None, "ok", "http_error"}
    /\ gen_data[r] \in {NoGenData,
                        [json |-> "dict", candidates |-> NoCandidates("absent")]}

\* the handler serving the requests of Reqs, their steps interleaved
NextConcurrent ==
    \/ Load
    \/ \E r \in Reqs :
        \/ Validate(r) /\ Held(r)'
        \/ SaveTemp(r) /\ Held(r)'
        \/ Initiate(r) /\ Held(r)'
        \/ Upload(r) /\ Held(r)'
        \/ Poll(r) /\ Held(r)'
        \/ Sleep(r) /\ Held(r)'
        \/ Generate(r) /\ Held(r)'
        \/ Send(r) /\ Held(r)'
        \/ Initiated(r) /\ Held(r)'
        \/ Uploaded(r) /\ Held(r)'
        \/ Polled(r) /\ Held(r)'
        \/ Generated(r) /\ Held(r)'

SpecConcurrent == Init /\ [][NextConcurrent]_vars

\* ------------------------------------- the session's calls on their own
\* session.post / session.get is entered: method is POST (initiation,
\* upload, generation) or GET (status), scheme that of the URL
SessionBegin ==
    /\ wire = NoWire
    /\ \E method \in {"POST", "GET"}, scheme \in Schemes :
         wire' = SessionOpen(method, scheme)
    /\ UNCHANGED <<vendor, handler>>

\* one attempt of the call under way: the vendor answers a, and the session
\* returns, raises, or sleeps and goes on to the next attempt
SessionTry ==
    /\ wire.open
    /\ \E a \in Attempts :
         /\ vendor' = Append(vendor, a)
         /\ wire' = SessionAttempt(wire, a)
    /\ UNCHANGED handler

SessionCall == SessionBegin \/ SessionTry

SpecSession == Init /\ [][SessionCall]_vars

\* ============================================================ properties

\* the request has completed
Done(r) == pc[r] = "done"

\* the error category and the detail of a response, '' when the key is absent
ErrorOf(resp) == IF "error" \in DOMAIN resp.body THEN resp.body.error ELSE ""
DetailOf(resp) == IF "detail" \in DOMAIN resp.body THEN resp.body.detail ELSE ""

\* the response is the 500 of the poll timeout
IsTimeout(resp) == resp.status = 500 /\ DetailOf(resp) = "File processing timed out"

\* C1: every request that created a temporary file has, once completed,
\* no temporary file left, and unlinked it exactly once - on every exit
\* path, an exception raised while the upload is being saved included.
C1_TempFileRemovedOnEveryPath ==
    \A r \in Reqs :
        (Done(r) /\ created[r] # None) =>
            (~Exists(fs, created[r]) /\ unlinks[r] = 1)

\* the upstream protocol failed for the request: a failed HTTP status on one
\* of the four calls, no continuation URL, no file URI, a poll that returned
\* FAILED, or the attempts exhausted on states neither ACTIVE nor FAILED
UpstreamFailure(r) ==
    \/ seen[r].initiate \in {"http_error", "no_upload_url"}
    \/ seen[r].upload \in {"http_error", "no_file_uri"}
    \/ seen[r].status \in {"http_error", "FAILED"}
    \/ (seen[r].waiting = 60 /\ Waiting(seen[r].status))
    \/ seen[r].generate = "http_error"

\* C2: every upstream protocol failure ends the request with the 500 of
\* category "Upload or generation failed", and the category "Internal server
\* error" is produced only by other exceptions.
C2_UpstreamFailuresShareOneCategory ==
    \A r \in Reqs :
        (Done(r) /\ UpstreamFailure(r)) =>
            (response[r].status = 500
             /\ ErrorOf(response[r]) = "Upload or generation failed")

\* C3: when a status query returns FAILED, that query is the last one: the
\* step that reads the state completes the request with a 500, the number
\* of status queries stays what it was with that query (k at attempt k,
\* after k - 1 queries that waited), no query is under way, and no
\* generation call is ever issued.
C3_FailedStopsPolling ==
    [][\A r \in Reqs :
         seen'[r].status = "FAILED" =>
            /\ pc'[r] = "done"
            /\ response'[r].status = 500
            /\ calls'[r].generate = 0
            /\ calls'[r].status = attempt'[r]
            /\ calls'[r].status = seen'[r].waiting + 1
            /\ calls'[r].status = calls[r].status
            /\ Idle(r)']_vars

\* C3 witness: FAILED was returned at the 60th attempt, after 59 polls that
\* returned other states
C3_Witness ==
    \E r \in Reqs :
        /\ seen[r].status = "FAILED" /\ calls[r].status = 60
        /\ seen[r].waiting = 59 /\ Done(r) /\ response[r].status = 500

\* C4: when every status poll returns a state that is neither ACTIVE nor
\* FAILED, the request ends in the 500 of the timeout after exactly 60
\* status queries: the timeout is raised with 60 queries made and none of
\* them ACTIVE or FAILED, a request whose polls all waited is still in the
\* loop (sleeping, or about to query again while below 60 queries) until
\* it completes, which it does only at 60 queries and by the timeout, no 61st
\* query is made and no generation call is issued.
C4_TimeoutAfterExactly60 ==
    \A r \in Reqs :
        /\ calls[r].status <= 60
        /\ IsTimeout(response[r]) =>
              (calls[r].status = 60 /\ seen[r].waiting = 60
               /\ calls[r].generate = 0 /\ Done(r))
        /\ (calls[r].status > 0 /\ seen[r].waiting = calls[r].status) =>
              /\ calls[r].generate = 0
              /\ Done(r) => (calls[r].status = 60 /\ IsTimeout(response[r]))
              /\ ~Done(r) => (pc[r] \in {"sleep", "poll"}
                              /\ (pc[r] = "poll" => calls[r].status < 60))

\* C4 witness: the timeout response after 60 polls that all waited
C4_Witness ==
    \E r \in Reqs :
        /\ Done(r) /\ IsTimeout(response[r])
        /\ seen[r].waiting = 60 /\ calls[r].status = 60 /\ slept[r] = 300

\* C5: when a status query returns ACTIVE (at any attempt, the 60th
\* included) the handler leaves the loop with that query: it goes on to the
\* generation call without a response yet, makes no further status query,
\* never answers with the timeout, and has issued the generation call once
\* it completes; the timeout is answered only after 60 queries none of which
\* returned ACTIVE or FAILED.
C5_ActiveLeavesLoop ==
    /\ [](\A r \in Reqs :
            /\ seen[r].status = "ACTIVE" =>
                  /\ pc[r] \in {"generate", "done"}
                  /\ ~IsTimeout(response[r])
                  /\ Done(r) => calls[r].generate = 1
            /\ IsTimeout(response[r]) =>
                  (seen[r].waiting = 60 /\ seen[r].status \notin {"ACTIVE", "FAILED"}))
    /\ [][\A r \in Reqs :
            /\ (seen'[r].status = "ACTIVE" /\ seen[r].status # "ACTIVE") =>
                  (pc'[r] = "generate" /\ response'[r] = NoResponse)
            /\ seen[r].status = "ACTIVE" => calls'[r].status = calls[r].status]_vars

\* C5 witness: ACTIVE at the 60th attempt, and the generation call issued
C5_Witness ==
    \E r \in Reqs :
        /\ seen[r].status = "ACTIVE" /\ calls[r].status = 60
        /\ seen[r].waiting = 59 /\ calls[r].generate = 1
        /\ response[r].status = 200

\* the request is one that validation refuses
Refused(r) == ~request[r].has_video \/ request[r].filename = ""

\* C6: a request without the video part, or with an empty filename, is
\* answered 400 with an error key, creates no temporary file and makes no
\* call to the vendor.
C6_BadInputIs400 ==
    \A r \in Reqs :
        (pc[r] # "start" /\ Refused(r)) =>
            /\ Done(r)
            /\ response[r].status = 400
            /\ "error" \in DOMAIN response[r].body
            /\ created[r] = None /\ temp_filepath[r] = None
            /\ calls[r] = NoCalls

\* C6 witness: a request with the video part and an empty filename, refused
C6_Witness ==
    \E r \in Reqs :
        /\ request[r].has_video /\ request[r].filename = ""
        /\ Done(r) /\ response[r].status = 400

\* C7: once the generation call returned a successful HTTP status, the
\* request is answered 200 whatever the shape of the body.
C7_ParsingNeverFailsTheRequest ==
    \A r \in Reqs :
        (Done(r) /\ seen[r].generate \in {"ok", "not_json"}) =>
            (response[r].status = 200
             /\ "generated_documentation" \in DOMAIN response[r].body)

\* the body has the types of the vendor's schema wherever the handler looks:
\* an object whose candidates are absent or a list, whose first candidate is
\* an object with content absent or an object, whose parts are absent or a
\* list of objects with text absent or a string
C8_WellTyped(body) ==
    /\ body.json = "dict"
    /\ body.candidates.t \in {"absent", "list"}
    /\ body.candidates.items # <<>> =>
         LET first == body.candidates.items[1]
         IN  /\ first.t = "dict"
             /\ first.content.t \in {"absent", "dict"}
             /\ first.content.t = "dict" =>
                  /\ first.content.parts.t \in {"absent", "list"}
                  /\ \A i \in 1..Len(first.content.parts.items) :
                        /\ first.content.parts.items[i].t = "dict"
                        /\ first.content.parts.items[i].text # NonStr

\* the parts of the first candidate of a well-typed body, <<>> without any
C8_FirstParts(body) ==
    IF body.candidates.items = <<>> THEN <<>>
    ELSE IF body.candidates.items[1].content.t = "absent" THEN <<>>
    ELSE body.candidates.items[1].content.parts.items

\* the texts of the first n parts, one after the other
RECURSIVE C8_TextUpTo(_, _)
C8_TextUpTo(parts, n) ==
    IF n = 0 THEN ""
    ELSE C8_TextUpTo(parts, n - 1) \o
         (IF parts[n].text = Absent THEN "" ELSE parts[n].text)

\* C8: after a successful generation call on a body of the vendor's schema,
\* the response is 200; its text is "No content generated" when there is no
\* candidate, or the first candidate has no parts, or the texts of its parts
\* concatenate to ''; otherwise it is the texts of the parts of the first
\* candidate, and of no other, in order.
C8_TextOfFirstCandidate ==
    \A r \in Reqs :
        (Done(r) /\ seen[r].generate = "ok" /\ C8_WellTyped(gen_data[r])) =>
            LET parts == C8_FirstParts(gen_data[r])
                text  == C8_TextUpTo(parts, Len(parts))
            IN  /\ response[r].status = 200
                /\ DOMAIN response[r].body = {"generated_documentation"}
                /\ response[r].body.generated_documentation =
                     IF gen_data[r].candidates.items = <<>> \/ parts = <<>>
                        \/ text = ""
                     THEN "No content generated"
                     ELSE text

\* C8 witness: two candidates, the first with the parts "# Doc" and "!",
\* answered with "# Doc!"
C8_Witness ==
    \E r \in Reqs :
        /\ Done(r) /\ seen[r].generate = "ok" /\ C8_WellTyped(gen_data[r])
        /\ Len(gen_data[r].candidates.items) = 2
        /\ Len(C8_FirstParts(gen_data[r])) = 2
        /\ C8_FirstParts(gen_data[r])[1].text = "# Doc"
        /\ C8_FirstParts(gen_data[r])[2].text = "!"
        /\ response[r] = Resp200("# Doc!")

\* one of the three responses of the interface
C9_Shape(resp) ==
    \/ resp.status = 200 /\ "generated_documentation" \in DOMAIN resp.body
    \/ resp.status = 400 /\ "error" \in DOMAIN resp.body
    \/ /\ resp.status = 500
       /\ {"error", "detail"} \subseteq DOMAIN resp.body
       /\ resp.body.error \in
            {"Upload or generation failed", "Internal server error"}

\* C9: no exception leaves upload_video, whatever the outcomes of the
\* local file operations and of the remote calls: the handler answers every
\* request with exactly one response, of one of the three shapes; a
\* completed request has one, a request in progress has none, and a
\* response once returned is never replaced.
C9_ExactlyOneResponse ==
    /\ [](\A r \in Reqs :
            /\ Done(r) => C9_Shape(response[r])
            /\ ~Done(r) => response[r] = NoResponse)
    /\ [][\A r \in Reqs :
            response[r] # NoResponse => response'[r] = response[r]]_vars

\* C10: the remote steps run in the order initiate, upload, poll, generate,
\* each at most once but the poll, each only after the one before succeeded
\* (for the generation: after a poll returned ACTIVE); a failed step
\* completes the request; a completed request issues no remote call.
C10_StepsInOrder ==
    /\ [](\A r \in Reqs :
            /\ calls[r].initiate <= 1 /\ calls[r].upload <= 1
            /\ calls[r].generate <= 1
            /\ calls[r].upload > 0 => seen[r].initiate = "ok"
            /\ calls[r].status > 0 => seen[r].upload = "ok"
            /\ calls[r].generate > 0 => seen[r].status = "ACTIVE"
            /\ seen[r].initiate \notin {None, "ok"} =>
                  (Done(r) /\ calls[r].upload = 0 /\ calls[r].status = 0
                   /\ calls[r].generate = 0)
            /\ seen[r].upload \notin {None, "ok"} =>
                  (Done(r) /\ calls[r].status = 0 /\ calls[r].generate = 0)
            /\ seen[r].status \in {"transport", "http_error", "malformed", "FAILED"} =>
                  (Done(r) /\ calls[r].generate = 0))
    /\ [][\A r \in Reqs : Done(r) => calls'[r] = calls[r]]_vars

\* C10 witness: the upload response carries no file URI; the request is
\* completed after one initiation and one upload call
C10_Witness ==
    \E r \in Reqs :
        /\ seen[r].upload = "no_file_uri" /\ Done(r)
        /\ calls[r] = [initiate |-> 1, upload |-> 1, status |-> 0, generate |-> 0]

\* the attempt got a response that carries no reason to retry: its status
\* is none of 502, 503, 504, and it is not a 413, 429 or 503 with a
\* Retry-After header
C11_OtherStatus(a) ==
    /\ a.err = ""
    /\ a.status_code \notin {502, 503, 504}
    /\ ~(a.retry_after # NoRetryAfter /\ a.status_code \in {413, 429, 503})

\* C11 as claimed: the session makes at most 3 retries (4 attempts); an
\* attempt is followed by another only when it got a response of status
\* 502, 503 or 504; a 4xx response is never retried and surfaces after a
\* single attempt.
C11_RetryOnlyOnForcelistStatus ==
    /\ wire.tries <= 1 + 3
    /\ \A i \in 1..(Len(vendor) - 1) :
          vendor[i].err = "" /\ vendor[i].status_code \in {502, 503, 504}
    /\ (Len(vendor) > 0 /\ vendor[1].err = ""
        /\ vendor[1].status_code >= 400 /\ vendor[1].status_code < 500) =>
          (Len(vendor) = 1 /\ ~wire.open /\ wire.transport = ""
           /\ wire.status_code = vendor[1].status_code)

\* C11: the session makes at most 3 retries (4 attempts) for one call.  An
\* attempt is followed by another only when it got no response (the
\* connection, the sending or the read failed), or a response of status
\* 502, 503 or 504, or a response of status 413, 429 or 503 that carries a
\* Retry-After header; a response of any other kind (a 4xx without
\* Retry-After, say) ends the call at once and is what the handler gets.
C11_RetryOnlyOnForcelistStatusOrFailure ==
    /\ wire.tries <= 1 + 3
    /\ wire.tries = Len(vendor)
    /\ \A i \in 1..(Len(vendor) - 1) : ~C11_OtherStatus(vendor[i])
    /\ \A i \in 1..Len(vendor) :
          C11_OtherStatus(vendor[i]) =>
             (i = Len(vendor) /\ ~wire.open /\ wire.transport = ""
              /\ wire.status_code = vendor[i].status_code)
    /\ (Len(vendor) > 0 /\ C11_OtherStatus(vendor[1])) => wire.tries = 1

\* C11 witness: a GET that fails to connect, then gets 429 with Retry-After,
\* then 503, then 404: three retries, 7 + 4 seconds slept between them, and
\* the 404 returned
C11_Witness ==
    /\ wire.method = "GET" /\ wire.scheme = "https" /\ wire.tries = 4
    /\ Len(vendor) = 4
    /\ vendor[1].err = "connect"
    /\ vendor[2].status_code = 429 /\ vendor[2].retry_after = 7
    /\ vendor[3].status_code = 503 /\ vendor[3].retry_after = NoRetryAfter
    /\ vendor[4].status_code = 404
    /\ wire.slept = 11
    /\ ~wire.open /\ wire.transport = "" /\ wire.status_code = 404

\* C12: a request issues the generation call at most once, and only after
\* a status poll of that request returned ACTIVE; the call refers to the
\* file URI the upload response carried and to the MIME type detected for
\* the temporary file (application/octet-stream when none is detected).
C12_GenerationOnceAfterActive ==
    \A r \in Reqs :
        /\ calls[r].generate <= 1
        /\ calls[r].generate = 1 =>
              /\ seen[r].status = "ACTIVE"
              /\ seen[r].upload = "ok"
              /\ sent[r].gen_uri = seen[r].uri
              /\ sent[r].gen_mime =
                    IF request[r].kind = None THEN "application/octet-stream"
                    ELSE request[r].kind
        /\ calls[r].generate = 0 => (sent[r].gen_uri = <<>> /\ sent[r].gen_mime = None)

\* C12 witness: the generation call issued after the third poll returned
\* ACTIVE, for the URI files/abc123 and the detected type video/mp4
C12_Witness ==
    \E r \in Reqs :
        /\ calls[r].generate = 1 /\ calls[r].status = 3
        /\ seen[r].status = "ACTIVE"
        /\ sent[r].gen_uri = <<"files", "abc123">>
        /\ sent[r].gen_mime = "video/mp4"

\* the body has exactly one candidate, and its parts, at least one, are
\* objects whose "text" is a non-empty string
C13_OneTextualCandidate(body) ==
    /\ body.json = "dict"
    /\ body.candidates.t = "list"
    /\ Len(body.candidates.items) = 1
    /\ body.candidates.items[1].t = "dict"
    /\ body.candidates.items[1].content.t = "dict"
    /\ body.candidates.items[1].content.parts.t = "list"
    /\ body.candidates.items[1].content.parts.items # <<>>
    /\ \A i \in 1..Len(body.candidates.items[1].content.parts.items) :
          /\ body.candidates.items[1].content.parts.items[i].t = "dict"
          /\ body.candidates.items[1].content.parts.items[i].text
                \notin {Absent, NonStr, ""}

\* the happy path: initiation returned an upload URL, the upload a file
\* URI, the first status poll ACTIVE, the generation one textual candidate
C13_HappyPath(r) ==
    /\ seen[r].initiate = "ok"
    /\ seen[r].upload = "ok"
    /\ seen[r].status = "ACTIVE" /\ seen[r].waiting = 0
    /\ seen[r].generate = "ok"
    /\ C13_OneTextualCandidate(gen_data[r])

\* C13 as claimed: on the happy path the request makes exactly one
\* initiation call, one upload call, one status query and one generation
\* call, never sleeps, and answers 200 with the texts of the parts one
\* after the other.
C13_HappyPathNeverSleeps ==
    \A r \in Reqs :
        C13_HappyPath(r) =>
            LET parts == gen_data[r].candidates.items[1].content.parts.items
            IN  /\ Done(r)
                /\ calls[r] = [initiate |-> 1, upload |-> 1, status |-> 1,
                               generate |-> 1]
                /\ slept[r] = 0
                /\ response[r] = Resp200(C8_TextUpTo(parts, Len(parts)))

\* C13: on the happy path the request makes exactly one initiation call,
\* one upload call, one status query and one generation call, never waits
\* in the poll loop - all the time it sleeps, if any, is slept by the
\* session between two attempts of a call - and answers 200 with the texts
\* of the parts one after the other.
C13_HappyPathOneCallEach ==
    \A r \in Reqs :
        C13_HappyPath(r) =>
            LET parts == gen_data[r].candidates.items[1].content.parts.items
            IN  /\ Done(r)
                /\ calls[r] = [initiate |-> 1, upload |-> 1, status |-> 1,
                               generate |-> 1]
                /\ slept[r] = paused[r]
                /\ retried[r] = 0 => slept[r] = 0
                /\ response[r] = Resp200(C8_TextUpTo(parts, Len(parts)))

\* C13 witness: the 10-byte file a.txt, upload URL X, URI files/abc123,
\* ACTIVE at once, one candidate with the parts "# Doc" and "!"; three
\* attempts of its calls were made again, and the session slept 2 and 4
\* seconds before the last two
C13_Witness ==
    \E r \in Reqs :
        /\ C13_HappyPath(r)
        /\ request[r].filename = "a.txt" /\ request[r].size = 10
        /\ upload_url[r] = "X" /\ file_uri[r] = <<"files", "abc123">>
        /\ Len(gen_data[r].candidates.items[1].content.parts.items) = 2
        /\ gen_data[r].candidates.items[1].content.parts.items[1].text = "# Doc"
        /\ gen_data[r].candidates.items[1].content.parts.items[2].text = "!"
        /\ response[r] = Resp200("# Doc!")
        /\ retried[r] = 3 /\ slept[r] = 6 /\ paused[r] = 6

\* the request holds a temporary file and has not completed
C14_InProgress(r) == pc[r] \in {"initiate", "upload", "poll", "sleep", "generate"}

\* C14: two requests handled at the same time are isolated. Requests that
\* hold temporary files hold different paths, requests that made sessions
\* made different ones; the temporary file of a request in progress exists
\* and holds the bytes of that request whatever the other request did, its
\* cleanup included; and the upload call carries the request's own bytes.
C14_ConcurrentRequestsIsolated ==
    \A r \in Reqs :
        /\ \A q \in Reqs \ {r} :
              /\ (C14_InProgress(r) /\ C14_InProgress(q)) =>
                    temp_filepath[r] # temp_filepath[q]
              /\ (~Done(r) /\ ~Done(q) /\ created[r] # None) =>
                    created[r] # created[q]
              /\ session[r] # None => session[r] # session[q]
        /\ C14_InProgress(r) =>
              /\ Exists(fs, temp_filepath[r])
              /\ fs[temp_filepath[r]] = request[r].size
        /\ calls[r].upload > 0 => sent[r].uploaded = request[r].size

\* C14 witness: r1 (10 bytes) and r2 (0 bytes) both uploaded, each from its
\* own file through its own session; r2 has completed and its cleanup
\* removed its file, r1 is still in progress, inside its generation call
\* between the first attempt and the second, and its file is there
C14_Witness ==
    /\ request["r1"].size = 10 /\ request["r2"].size = 0
    /\ calls["r1"].upload = 1 /\ calls["r2"].upload = 1
    /\ sent["r1"].uploaded = 10 /\ sent["r2"].uploaded = 0
    /\ session["r1"] # session["r2"]
    /\ session["r1"] # None /\ session["r2"] # None
    /\ created["r1"] # created["r2"]
    /\ Done("r2") /\ unlinks["r2"] = 1
    /\ pc["r1"] = "generate" /\ Exists(fs, temp_filepath["r1"])
    /\ call["r1"].open /\ call["r1"].tries = 1

\* C15: every request that arrives at the handler (the module once loaded
\* and serving) completes with a response; it makes at
\* most one initiation call, one upload call, 60 status queries and one
\* generation call, each of at most 4 attempts; and no remote step is
\* entered again once it finished: the count of a step moves only when the
\* request, standing at that step, enters its call, and a call that came
\* back moves the request on.
C15_EveryRequestCompletes ==
    /\ (app.status = "serving") ~>
          (\A r \in Arriving : Done(r) /\ response[r] # NoResponse)
    /\ [](\A r \in Reqs :
            /\ calls[r].initiate <= 1 /\ calls[r].upload <= 1
            /\ calls[r].status <= 60 /\ calls[r].generate <= 1
            /\ attempt[r] <= 60
            /\ call[r].tries <= 1 + retry_total)
    /\ [][\A r \in Reqs :
            /\ calls'[r].initiate # calls[r].initiate =>
                  (pc[r] = "initiate" /\ Idle(r) /\ call'[r].open)
            /\ calls'[r].upload # calls[r].upload =>
                  (pc[r] = "upload" /\ Idle(r) /\ call'[r].open)
            /\ calls'[r].status # calls[r].status =>
                  (pc[r] = "poll" /\ Idle(r) /\ call'[r].open)
            /\ calls'[r].generate # calls[r].generate =>
                  (pc[r] = "generate" /\ Idle(r) /\ call'[r].open)
            /\ (~Idle(r) /\ Idle(r)') =>
                  /\ ~call[r].open
                  /\ pc[r] = "initiate" => pc'[r] \in {"upload", "done"}
                  /\ pc[r] = "upload" => pc'[r] \in {"poll", "done"}
                  /\ pc[r] = "poll" => pc'[r] \in {"sleep", "generate", "done"}
                  /\ pc[r] = "generate" => pc'[r] = "done"
            /\ (call'[r].tries # call[r].tries /\ ~Idle(r)') =>
                  (call[r].open /\ call'[r].tries = call[r].tries + 1)
            /\ pc[r] \in {"upload", "poll", "sleep", "generate", "done"} =>
                  pc'[r] # "initiate"
            /\ pc[r] \in {"poll", "sleep", "generate", "done"} =>
                  pc'[r] # "upload"
            /\ pc[r] \in {"generate", "done"} => pc'[r] \notin {"poll", "sleep"}
            /\ pc[r] = "done" => pc'[r] = "done"]_vars

\* C15 witness: the most calls a request can make, the vendor answering
\* ACTIVE to the 60th status query: 1 + 1 + 60 + 1, then the response
C15_Witness ==
    \E r \in Reqs :
        /\ Done(r) /\ response[r].status = 200
        /\ calls[r] = [initiate |-> 1, upload |-> 1, status |-> 60,
                       generate |-> 1]

\* the step reads the state of a status query that came back
C16_Reads(r) == pc[r] = "poll" /\ Returned(r)

\* C16 as claimed: the request waits 5 time units after every status query
\* whose state is neither ACTIVE nor FAILED and at no other time. A wait is
\* 5 units, follows a query that returned such a state and precedes the
\* next query or the timeout; the k+1-th query is made after exactly k
\* waits and 5 k units; no wait follows a query that returned ACTIVE or
\* FAILED (or that raised); the timeout is raised by the step that makes
\* the 60th wait, after the 60th query, with 300 units waited in all.
C16_WaitsOnlyAfterWaitingQueries ==
    /\ [](\A r \in Reqs :
            /\ pc[r] = "sleep" =>
                  (Waiting(seen[r].status) /\ slept[r] = 5 * (seen[r].waiting - 1))
            /\ pc[r] # "sleep" => slept[r] = 5 * seen[r].waiting
            /\ IsTimeout(response[r]) => (slept[r] = 300 /\ calls[r].status = 60))
    /\ [][\A r \in Reqs :
            /\ slept'[r] # slept[r] =>
                  /\ slept'[r] = slept[r] + 5
                  /\ pc[r] = "sleep" /\ Waiting(seen[r].status)
                  /\ calls'[r] = calls[r]
                  /\ pc'[r] \in {"poll", "done"}
                  /\ pc'[r] = "done" =>
                        (IsTimeout(response'[r]) /\ calls[r].status = 60
                         /\ slept'[r] = 300)
            /\ calls'[r].status # calls[r].status =>
                  /\ slept'[r] = slept[r]
                  /\ slept[r] = 5 * calls[r].status
            /\ C16_Reads(r) =>
                  (Waiting(seen'[r].status) <=> pc'[r] = "sleep")
            /\ (pc[r] = "sleep" /\ pc'[r] # "sleep") => slept'[r] = slept[r] + 5
            /\ (IsTimeout(response'[r]) /\ ~IsTimeout(response[r])) =>
                  (pc[r] = "sleep" /\ slept[r] = 295)]_vars

\* C16: the poll loop waits 5 time units after every status query whose
\* state is neither ACTIVE nor FAILED, and the handler itself waits at no
\* other time. A wait of the loop is 5 units, follows a query that returned
\* such a state and precedes the next query or the timeout; the k+1-th
\* query is made after exactly k waits of the loop; no wait of the loop
\* follows a query that returned ACTIVE or FAILED (or that raised); the
\* timeout is raised by the step that makes the 60th wait, after the 60th
\* query, with 300 units waited in the loop in all. All other time the
\* request sleeps is slept by the session inside a call, between an
\* attempt and the next (the backoff of 2 or 4 units, or the seconds of the
\* Retry-After of the response when there are any).
C16_WaitsFiveAfterEachWaitingQuery ==
    /\ [](\A r \in Reqs :
            /\ paused[r] >= 0 /\ paused[r] <= slept[r]
            /\ retried[r] = 0 => paused[r] = 0
            /\ pc[r] = "sleep" =>
                  /\ Waiting(seen[r].status)
                  /\ slept[r] - paused[r] = 5 * (seen[r].waiting - 1)
            /\ pc[r] # "sleep" => slept[r] - paused[r] = 5 * seen[r].waiting
            /\ IsTimeout(response[r]) =>
                  (slept[r] - paused[r] = 300 /\ calls[r].status = 60))
    /\ [][\A r \in Reqs :
            /\ slept'[r] # slept[r] =>
                  \/ /\ slept'[r] = slept[r] + 5 /\ paused'[r] = paused[r]
                     /\ pc[r] = "sleep" /\ Waiting(seen[r].status)
                     /\ calls'[r] = calls[r]
                     /\ pc'[r] \in {"poll", "done"}
                     /\ pc'[r] = "done" =>
                           (IsTimeout(response'[r]) /\ calls[r].status = 60
                            /\ slept'[r] - paused'[r] = 300)
                  \/ /\ call[r].open /\ call'[r].open
                     /\ call'[r].tries = call[r].tries + 1
                     /\ slept'[r] - slept[r] = call'[r].slept - call[r].slept
                     /\ paused'[r] - paused[r] = slept'[r] - slept[r]
                     /\ slept'[r] - slept[r] \in
                           {2, 4} \cup {secs \in RetryAfters : secs > 0}
                     /\ pc'[r] = pc[r] /\ calls'[r] = calls[r]
            /\ paused'[r] # paused[r] => slept'[r] # slept[r]
            /\ calls'[r].status # calls[r].status =>
                  /\ slept'[r] = slept[r]
                  /\ slept[r] - paused[r] = 5 * calls[r].status
            /\ C16_Reads(r) =>
                  /\ slept'[r] = slept[r]
                  /\ Waiting(seen'[r].status) <=> pc'[r] = "sleep"
            /\ (pc[r] = "sleep" /\ pc'[r] # "sleep") => slept'[r] = slept[r] + 5
            /\ (IsTimeout(response'[r]) /\ ~IsTimeout(response[r])) =>
                  (pc[r] = "sleep" /\ slept[r] - paused[r] = 295)]_vars

\* C16 witness: FAILED at the third query, after two waits of the loop and
\* no wait after it; one attempt of a call was answered with a Retry-After
\* of 7 and made again after 7 units
C16_Witness ==
    \E r \in Reqs :
        /\ Done(r) /\ seen[r].status = "FAILED"
        /\ calls[r].status = 3 /\ seen[r].waiting = 2
        /\ retried[r] = 1 /\ paused[r] = 7 /\ slept[r] = 17

\* C17: a 200 response implies that the whole protocol succeeded in that
\* request: the initiation call was answered without error and with a
\* non-empty upload URL, the upload call without error and with a non-empty
\* file URI, the last status query with ACTIVE and no query before it with
\* FAILED (every earlier one, if any, with a state to wait on), and the
\* generation call without error.
C17_OkImpliesProtocolSucceeded ==
    \A r \in Reqs :
        response[r].status = 200 =>
            /\ calls[r].initiate = 1 /\ seen[r].initiate = "ok"
            /\ upload_url[r] \notin {None, Absent, ""}
            /\ calls[r].upload = 1 /\ seen[r].upload = "ok"
            /\ file_uri[r] \notin {<<>>, <<"">>} /\ file_uri[r] = seen[r].uri
            /\ calls[r].status >= 1 /\ seen[r].status = "ACTIVE"
            /\ seen[r].waiting = calls[r].status - 1
            /\ calls[r].generate = 1 /\ seen[r].generate = "ok"

\* C17 witness: a 200 whose text is the placeholder, after one poll that
\* waited and one that returned ACTIVE
C17_Witness ==
    \E r \in Reqs :
        /\ response[r] = Resp200("No content generated")
        /\ calls[r].status = 2 /\ seen[r].waiting = 1
        /\ seen[r].status = "ACTIVE"

\* C18: the temporary file of a request exists, with the bytes saved, from
\* the step that saves it until the step that determines the response:
\* os.unlink runs only in a step that completes the request, no remote
\* call is made after it, the upload streams a file that is there, and
\* the length declared at initiation is the Content-Length of the upload.
C18_TempFileLivesUntilResponse ==
    /\ [](\A r \in Reqs :
            /\ pc[r] \in {"initiate", "upload", "poll", "sleep", "generate"} =>
                  /\ temp_filepath[r] # None /\ Exists(fs, temp_filepath[r])
                  /\ fs[temp_filepath[r]] = request[r].size
                  /\ unlinks[r] = 0
            /\ unlinks[r] > 0 => (Done(r) /\ response[r] # NoResponse)
            /\ calls[r].initiate > 0 => sent[r].declared_len = request[r].size
            /\ calls[r].upload > 0 =>
                  /\ sent[r].content_len = sent[r].declared_len
                  /\ sent[r].uploaded = sent[r].content_len)
    /\ [][\A r \in Reqs :
            /\ unlinks'[r] # unlinks[r] =>
                  /\ unlinks[r] = 0 /\ unlinks'[r] = 1
                  /\ pc[r] # "done" /\ pc'[r] = "done"
                  /\ response'[r] # NoResponse
                  /\ ~Exists(fs', temp_filepath[r])
            /\ unlinks[r] > 0 => calls'[r] = calls[r]
            /\ (temp_filepath[r] # None /\ Exists(fs, temp_filepath[r])
                /\ ~Exists(fs', temp_filepath[r])) => unlinks'[r] = unlinks[r] + 1
            /\ calls'[r].upload # calls[r].upload =>
                  /\ Exists(fs, temp_filepath[r])
                  /\ pc'[r] # "done" => Exists(fs', temp_filepath[r])]_vars

\* C18 witness: a 10-byte file declared and uploaded as 10 bytes, still in
\* place at the generation step after three status queries
C18_Witness ==
    \E r \in Reqs :
        /\ pc[r] = "generate" /\ calls[r].status = 3
        /\ Exists(fs, temp_filepath[r]) /\ fs[temp_filepath[r]] = 10
        /\ sent[r].declared_len = 10 /\ sent[r].content_len = 10
        /\ unlinks[r] = 0

====
